---- MODULE Spec2Model ----
(***************************************************************************)
(* A model of the weather providers of duluk/weather:                      *)
(*   pkg/weather/openweather (Provider A, key based)                        *)
(*   pkg/weather/openmeteo   (Provider B, geocoding + forecast)             *)
(* Strings are TLA+ strings; the string functions of the Go code (Split,   *)
(* Contains, <, time.Parse) are computed character by character.  The      *)
(* float64 temperatures and wind speeds are integers: the code only        *)
(* compares and copies them.                                                *)
(***************************************************************************)
EXTENDS Integers, Sequences, FiniteSets, TLC

VARIABLES
    provider,  \* the provider main() constructed: its name and its fields
    pc,        \* position of the one caller: "idle", "geocoded", "done"
    call,      \* the invocation in progress: provider, operation, location
    payload,   \* what the upstream answered to the last request
    coords,    \* Provider B: the candidate getCoordinates selected
    requests,  \* outbound requests issued by the invocation, in order
    outcome    \* what the invocation returned (result, error or panic)

vars == <<provider, pc, call, payload, coords, requests, outcome>>

----------------------------------------------------------------------------
(* Bounds of the model *)

\* longest forecast sample list (data.List) the upstream returns
MaxList == 2

\* most candidates in a geocoding response
MaxResults == 2

\* longest daily array in a Provider B weather response
MaxDays == 7

\* weather codes range over -1..MaxCode
MaxCode == 100

----------------------------------------------------------------------------
(* Strings, as the Go runtime computes on them *)

\* the bytes the model's strings use, in ascending byte order
Alphabet == " ,-0123456789:ABCDEFGHIJKLMNOPQRSTUVWXYZabcdefghijklmnopqrstuvwxyz"

CharAt(s, i) == SubSeq(s, i, i)

\* the rank of each byte of the alphabet
OrdTable ==
    [c \in {CharAt(Alphabet, i) : i \in 1..Len(Alphabet)} |->
        CHOOSE i \in 1..Len(Alphabet) : CharAt(Alphabet, i) = c]

Ord(c) == OrdTable[c]

Min2(a, b) == IF a < b THEN a ELSE b

\* Go's s < t on strings: bytewise lexicographic order
StrLess(s, t) ==
    LET n == Min2(Len(s), Len(t))
        diff == {i \in 1..n : CharAt(s, i) # CharAt(t, i)}
    IN  IF diff = {}
        THEN Len(s) < Len(t)
        ELSE LET k == CHOOSE i \in diff : \A j \in diff : i <= j
             IN  Ord(CharAt(s, k)) < Ord(CharAt(t, k))

\* strings.Contains(s, sub)
Contains(s, sub) ==
    \E i \in 1..(Len(s) - Len(sub) + 1) : SubSeq(s, i, i + Len(sub) - 1) = sub

\* strings.Split(s, sep) for a one-byte separator
RECURSIVE Split(_, _)
Split(s, sep) ==
    LET hits == {i \in 1..Len(s) : CharAt(s, i) = sep}
    IN  IF hits = {}
        THEN <<s>>
        ELSE LET k == CHOOSE i \in hits : \A j \in hits : i <= j
             IN  <<SubSeq(s, 1, k - 1)>> \o Split(SubSeq(s, k + 1, Len(s)), sep)

IsDigit(c) == c \in {"0", "1", "2", "3", "4", "5", "6", "7", "8", "9"}

DigitVal(c) == Ord(c) - Ord("0")

\* the number a string of digits spells
RECURSIVE Atoi(_)
Atoi(s) ==
    IF Len(s) = 0 THEN 0
    ELSE 10 * Atoi(SubSeq(s, 1, Len(s) - 1)) + DigitVal(CharAt(s, Len(s)))

----------------------------------------------------------------------------
(* time.Time, to the day *)

\* the zero time.Time, which time.Parse returns with an error
ZeroDate == [year |-> 1, month |-> 1, day |-> 1]

IsLeap(y) == (y % 4 = 0) /\ ((y % 100 # 0) \/ (y % 400 = 0))

DaysIn(y, m) ==
    IF m = 2 THEN (IF IsLeap(y) THEN 29 ELSE 28)
    ELSE IF m \in {4, 6, 9, 11} THEN 30 ELSE 31

\* time.Parse("2006-01-02", s) with the error dropped: four digits, "-", two
\* digits, "-", two digits and nothing more, the month and the day in range
timeParse(s) ==
    IF /\ Len(s) = 10
       /\ CharAt(s, 5) = "-"
       /\ CharAt(s, 8) = "-"
       /\ \A i \in {1, 2, 3, 4, 6, 7, 9, 10} : IsDigit(CharAt(s, i))
    THEN LET y == Atoi(SubSeq(s, 1, 4))
             m == Atoi(SubSeq(s, 6, 7))
             d == Atoi(SubSeq(s, 9, 10))
         IN  IF m \in 1..12 /\ d >= 1 /\ d <= DaysIn(y, m)
             THEN [year |-> y, month |-> m, day |-> d]
             ELSE ZeroDate
    ELSE ZeroDate

\* a.Before(b)
Before(a, b) ==
    \/ a.year < b.year
    \/ a.year = b.year /\ a.month < b.month
    \/ a.year = b.year /\ a.month = b.month /\ a.day < b.day

----------------------------------------------------------------------------
(* Upstream payloads of Provider A (openweather), as json.Unmarshal decodes *)
(* them into WeatherData and ForecastData                                   *)

\* dt_txt values: a date with samples before 06:00, at 06:00, at noon and
\* after noon, and a sample of the next date
DateTexts ==
    {"2025-01-31 03:00:00", "2025-01-31 06:00:00", "2025-01-31 12:00:00",
     "2025-01-31 15:00:00", "2025-02-01 09:00:00"}

\* main and wind blocks: two ordinary readings, one below the accumulator's
\* initial high and one above its initial low
Readings ==
    {[Main |-> [Temp |-> 65, FeelsLike |-> 63, TempMin |-> 50, TempMax |-> 70,
                Humidity |-> 40],
      Wind |-> [Speed |-> 5]],
     [Main |-> [Temp |-> 58, FeelsLike |-> 57, TempMin |-> 55, TempMax |-> 60,
                Humidity |-> 80],
      Wind |-> [Speed |-> 9]],
     [Main |-> [Temp |-> -1001, FeelsLike |-> -1001, TempMin |-> -1002,
                TempMax |-> -1001, Humidity |-> 120],
      Wind |-> [Speed |-> 7]],
     [Main |-> [Temp |-> 1001, FeelsLike |-> 1001, TempMin |-> 1001,
                TempMax |-> 1002, Humidity |-> -5],
      Wind |-> [Speed |-> 3]]}

\* weather[] arrays with one description
Weathers ==
    {<<[Description |-> "clear sky"]>>, <<[Description |-> "light rain"]>>}

\* elements of ForecastData.List that decode but are not what the upstream
\* documents: a dt_txt without a time part, and empty weather[] arrays
OddListItems ==
    LET r == CHOOSE x \in Readings : x.Main.TempMax = 70
    IN  {[DateText |-> "2025-01-31", Main |-> r.Main, Wind |-> r.Wind,
          Weather |-> <<[Description |-> "clear sky"]>>],
         [DateText |-> "2025-01-31 06:00:00", Main |-> r.Main, Wind |-> r.Wind,
          Weather |-> <<>>],
         [DateText |-> "2025-01-31 12:00:00", Main |-> r.Main, Wind |-> r.Wind,
          Weather |-> <<>>]}

\* one element of ForecastData.List
ListItems ==
    {[DateText |-> dt, Main |-> r.Main, Wind |-> r.Wind, Weather |-> w] :
        dt \in DateTexts, r \in Readings, w \in Weathers} \cup OddListItems

SeqsUpTo(S, n) == UNION {[1..k -> S] : k \in 0..n}

\* the list is a series of 3-hour samples: no two carry the same dt_txt; its
\* order is free
ForecastDatas ==
    {[List |-> l, City |-> [Name |-> "Boston"]] :
        l \in {m \in SeqsUpTo(ListItems, MaxList) :
                 \A i, j \in 1..Len(m) : i # j => m[i].DateText # m[j].DateText}}

WeatherDatas ==
    {[Name |-> "Boston", Weather |-> w, Main |-> r.Main, Wind |-> r.Wind] :
        w \in Weathers \cup {<<>>, <<[Description |-> "mist"], [Description |-> "light rain"]>>},
        r \in Readings}

----------------------------------------------------------------------------
(* Provider A: pkg/weather/openweather/provider.go *)

\* the accumulator's initial high and low of processForecastData
HighInit == -1000
LowInit == 1000

\* a slip: the cut is at "03", so a 03:00 sample is kept
skipsHour_at03(hour) == StrLess(hour, "03")

\* "if hour < "06" { continue }": the sample is skipped
skipsHour(hour) == StrLess(hour, "06")

\* a slip: midnight is taken for the representative reading
isNoonSample_midnight(item) == Contains(item.DateText, "00:00:00")

\* strings.Contains(item.DateText, "12:00:00"): the sample is the noon one
isNoonSample(item) == Contains(item.DateText, "12:00:00")

\* a slip: the comparison for the high is turned round, so the high is never
\* raised from its initial value
processItem_highNotRaised(acc, item) ==
    IF acc.panicked THEN acc
    ELSE
    LET parts == Split(item.DateText, " ")
    IN  IF Len(parts) < 2 THEN [acc EXCEPT !.panicked = TRUE]
        ELSE
        LET date == parts[1]
            hour == Split(parts[2], ":")[1]
            exists == date \in DOMAIN acc.days
            noon == isNoonSample(item)
        IN  IF skipsHour(hour) THEN acc
            ELSE IF (~exists \/ noon) /\ Len(item.Weather) = 0
            THEN [acc EXCEPT !.panicked = TRUE]
            ELSE
            LET day0 == IF exists THEN acc.days[date]
                        ELSE [high |-> HighInit, low |-> LowInit,
                              description |-> item.Weather[1].Description,
                              windSpeed |-> 0,
                              humidity |-> item.Main.Humidity]
                day1 == [day0 EXCEPT
                           !.high = IF item.Main.TempMax < day0.high
                                    THEN item.Main.TempMax ELSE day0.high,
                           !.low = IF item.Main.TempMin < day0.low
                                   THEN item.Main.TempMin ELSE day0.low,
                           !.windSpeed = IF item.Wind.Speed > day0.windSpeed
                                         THEN item.Wind.Speed ELSE day0.windSpeed]
                day2 == IF noon
                        THEN [day1 EXCEPT
                                !.description = item.Weather[1].Description,
                                !.humidity = item.Main.Humidity]
                        ELSE day1
            IN  [acc EXCEPT !.days =
                    [d \in (DOMAIN acc.days) \cup {date} |->
                        IF d = date THEN day2 ELSE acc.days[d]]]

\* a slip: the description and the humidity are taken from every retained
\* sample, so the last one of a date stays
processItem_lastSample(acc, item) ==
    IF acc.panicked THEN acc
    ELSE
    LET parts == Split(item.DateText, " ")
    IN  IF Len(parts) < 2 THEN [acc EXCEPT !.panicked = TRUE]
        ELSE
        LET date == parts[1]
            hour == Split(parts[2], ":")[1]
            exists == date \in DOMAIN acc.days
        IN  IF skipsHour(hour) THEN acc
            ELSE IF Len(item.Weather) = 0
            THEN [acc EXCEPT !.panicked = TRUE]
            ELSE
            LET day0 == IF exists THEN acc.days[date]
                        ELSE [high |-> HighInit, low |-> LowInit,
                              description |-> item.Weather[1].Description,
                              windSpeed |-> 0,
                              humidity |-> item.Main.Humidity]
                day1 == [day0 EXCEPT
                           !.high = IF item.Main.TempMax > day0.high
                                    THEN item.Main.TempMax ELSE day0.high,
                           !.low = IF item.Main.TempMin < day0.low
                                   THEN item.Main.TempMin ELSE day0.low,
                           !.windSpeed = IF item.Wind.Speed > day0.windSpeed
                                         THEN item.Wind.Speed ELSE day0.windSpeed]
                day2 == [day1 EXCEPT
                           !.description = item.Weather[1].Description,
                           !.humidity = item.Main.Humidity]
            IN  [acc EXCEPT !.days =
                    [d \in (DOMAIN acc.days) \cup {date} |->
                        IF d = date THEN day2 ELSE acc.days[d]]]

\* what the loop body of processForecastData does with one item; acc is
\* [panicked, days], days the map dailyForecasts
processItem(acc, item) ==
    IF acc.panicked THEN acc
    ELSE
    LET parts == Split(item.DateText, " ")
    IN  IF Len(parts) < 2 THEN [acc EXCEPT !.panicked = TRUE]
        ELSE
        LET date == parts[1]
            hour == Split(parts[2], ":")[1]
            exists == date \in DOMAIN acc.days
            noon == isNoonSample(item)
        IN  IF skipsHour(hour) THEN acc
            ELSE IF (~exists \/ noon) /\ Len(item.Weather) = 0
            THEN [acc EXCEPT !.panicked = TRUE]
            ELSE
            LET day0 == IF exists THEN acc.days[date]
                        ELSE [high |-> HighInit, low |-> LowInit,
                              description |-> item.Weather[1].Description,
                              windSpeed |-> 0,
                              humidity |-> item.Main.Humidity]
                day1 == [day0 EXCEPT
                           !.high = IF item.Main.TempMax > day0.high
                                    THEN item.Main.TempMax ELSE day0.high,
                           !.low = IF item.Main.TempMin < day0.low
                                   THEN item.Main.TempMin ELSE day0.low,
                           !.windSpeed = IF item.Wind.Speed > day0.windSpeed
                                         THEN item.Wind.Speed ELSE day0.windSpeed]
                day2 == IF noon
                        THEN [day1 EXCEPT
                                !.description = item.Weather[1].Description,
                                !.humidity = item.Main.Humidity]
                        ELSE day1
            IN  [acc EXCEPT !.days =
                    [d \in (DOMAIN acc.days) \cup {date} |->
                        IF d = date THEN day2 ELSE acc.days[d]]]

\* the loop of processForecastData over data.List, first item first
RECURSIVE aggregate(_)
aggregate(list) ==
    IF Len(list) = 0
    THEN [panicked |-> FALSE, days |-> <<>>]
    ELSE processItem(aggregate(SubSeq(list, 1, Len(list) - 1)), list[Len(list)])

\* a slip: the keys come out in descending order
RECURSIVE sortStrings_descending(_)
sortStrings_descending(S) ==
    IF S = {} THEN <<>>
    ELSE LET most == CHOOSE s \in S : \A t \in S \ {s} : StrLess(t, s)
         IN  <<most>> \o sortStrings_descending(S \ {most})

\* sort.Strings over the keys of the map
RECURSIVE sortStrings(_)
sortStrings(S) ==
    IF S = {} THEN <<>>
    ELSE LET least == CHOOSE s \in S : \A t \in S \ {s} : StrLess(s, t)
         IN  <<least>> \o sortStrings(S \ {least})

\* processForecastData: whether it panicked (an index out of range), and the
\* []weather.DailyForecast it returns otherwise
processForecastData(data) ==
    LET acc == aggregate(data.List)
        dates == sortStrings(DOMAIN acc.days)
    IN  IF acc.panicked THEN [panicked |-> TRUE, items |-> <<>>]
        ELSE [panicked |-> FALSE,
              items |-> [i \in 1..Len(dates) |->
                LET day == acc.days[dates[i]]
                IN  [Date |-> timeParse(dates[i]),
                     Conditions |-> day.description,
                     High |-> day.high,
                     Low |-> day.low,
                     WindSpeed |-> day.windSpeed,
                     Humidity |-> day.humidity]]]

\* a pointer or an optional value: None is nil, Some(v) points to v
None == <<>>
Some(v) == <<v>>

\* getCurrentFromForecast: nil or the *weather.CurrentWeather
getCurrentFromForecast(data) ==
    IF Len(data.List) = 0 \/ Len(data.List[1].Weather) = 0 THEN None
    ELSE LET current == data.List[1]
         IN  Some([Location |-> data.City.Name,
              Conditions |-> current.Weather[1].Description,
              Temperature |-> current.Main.Temp,
              FeelsLike |-> current.Main.FeelsLike,
              TempMax |-> current.Main.TempMax,
              TempMin |-> current.Main.TempMin,
              Humidity |-> current.Main.Humidity,
              WindSpeed |-> current.Wind.Speed])

\* url.QueryEscape over the model's alphabet: letters, digits and "-" stay,
\* a space becomes "+", other bytes their %XX form
RECURSIVE QueryEscape(_)
QueryEscape(s) ==
    IF Len(s) = 0 THEN ""
    ELSE LET c == CharAt(s, 1)
             e == IF c = " " THEN "+"
                  ELSE IF c = "," THEN "%2C"
                  ELSE IF c = ":" THEN "%3A"
                  ELSE c
         IN  e \o QueryEscape(SubSeq(s, 2, Len(s)))

\* regexp ^\d{5}$ (Provider A) and ^[0-9]{5}$ (Provider B)
IsZip(location) ==
    Len(location) = 5 /\ \A i \in 1..5 : IsDigit(CharAt(location, i))

\* buildURL: the endpoint and the query the request carries
buildURL(location, forecast) ==
    LET endpoint == IF forecast THEN "forecast" ELSE "weather"
    IN  IF IsZip(location)
        THEN [host |-> "api.openweathermap.org", endpoint |-> endpoint,
              query |-> "zip=" \o location \o ",us&units=imperial"]
        ELSE [host |-> "api.openweathermap.org", endpoint |-> endpoint,
              query |-> "q=" \o QueryEscape(location) \o ",us&units=imperial"]

\* http.StatusOK
StatusOK == 200

\* a body: its text, and what json.Unmarshal makes of it (None: an error)
ErrorBody == [text |-> "{\"cod\":\"404\",\"message\":\"city not found\"}",
              decoded |-> None]
GarbledBody == [text |-> "<html>", decoded |-> None]
JsonBody(data) == [text |-> "json", decoded |-> Some(data)]

\* what the file system answers to os.ReadFile(filename): the canned file is
\* missing, garbled, or holds a payload
FileAnswers(sample) ==
    {[kind |-> "readFileError"]} \cup
    {[kind |-> "file", body |-> b] : b \in {GarbledBody, JsonBody(sample)}}

\* what the network answers to http.Get(url): no response, a response whose
\* body cannot be read, a success status with a body, another status with an
\* error text or with an ordinary payload
HttpAnswers(datas, sample) ==
    {[kind |-> "getError"], [kind |-> "readAllError", status |-> StatusOK]} \cup
    {[kind |-> "response", status |-> StatusOK, body |-> b] :
        b \in {GarbledBody} \cup {JsonBody(d) : d \in datas}} \cup
    {[kind |-> "response", status |-> st, body |-> b] :
        st \in {201, 404}, b \in {ErrorBody, JsonBody(sample)}}

\* a slip: a failed http.Get is tried once more before the error is returned
OpenWeather_fetchData_retry(p, location, isForecast, answer) ==
    IF p.useTestData
    THEN LET filename == IF isForecast THEN "weather.forecast.json"
                         ELSE "weather.weather.json"
             reqs == <<[kind |-> "readFile", name |-> filename]>>
         IN  IF answer.kind = "readFileError"
             THEN [requests |-> reqs, err |-> "error reading test file", data |-> None]
             ELSE IF answer.body.decoded = None
             THEN [requests |-> reqs, err |-> "error parsing JSON", data |-> None]
             ELSE [requests |-> reqs, err |-> "nil", data |-> answer.body.decoded]
    ELSE LET reqs == <<[kind |-> "httpGet", url |-> buildURL(location, isForecast)]>>
         IN  IF answer.kind = "getError"
             THEN [requests |-> reqs \o reqs, err |-> "error making request",
                   data |-> None]
             ELSE IF answer.kind = "readAllError"
             THEN [requests |-> reqs, err |-> "error reading response", data |-> None]
             ELSE IF answer.status # StatusOK
             THEN [requests |-> reqs, err |-> "API error: " \o answer.body.text,
                   data |-> None]
             ELSE IF answer.body.decoded = None
             THEN [requests |-> reqs, err |-> "error parsing JSON", data |-> None]
             ELSE [requests |-> reqs, err |-> "nil", data |-> answer.body.decoded]

\* a slip: when the canned file cannot be read, the network is asked instead
OpenWeather_fetchData_fallback(p, location, isForecast, answer) ==
    IF p.useTestData
    THEN LET filename == IF isForecast THEN "weather.forecast.json"
                         ELSE "weather.weather.json"
             reqs == <<[kind |-> "readFile", name |-> filename]>>
         IN  IF answer.kind = "readFileError"
             THEN [requests |-> reqs \o
                       <<[kind |-> "httpGet", url |-> buildURL(location, isForecast)]>>,
                   err |-> "error making request", data |-> None]
             ELSE IF answer.body.decoded = None
             THEN [requests |-> reqs, err |-> "error parsing JSON", data |-> None]
             ELSE [requests |-> reqs, err |-> "nil", data |-> answer.body.decoded]
    ELSE LET reqs == <<[kind |-> "httpGet", url |-> buildURL(location, isForecast)]>>
         IN  IF answer.kind = "getError"
             THEN [requests |-> reqs, err |-> "error making request", data |-> None]
             ELSE IF answer.kind = "readAllError"
             THEN [requests |-> reqs, err |-> "error reading response", data |-> None]
             ELSE IF answer.status # StatusOK
             THEN [requests |-> reqs, err |-> "API error: " \o answer.body.text,
                   data |-> None]
             ELSE IF answer.body.decoded = None
             THEN [requests |-> reqs, err |-> "error parsing JSON", data |-> None]
             ELSE [requests |-> reqs, err |-> "nil", data |-> answer.body.decoded]

\* Provider A fetchData(location, isForecast, target): the requests it issues,
\* the error it returns ("nil": none) and what it decodes into target
OpenWeather_fetchData(p, location, isForecast, answer) ==
    IF p.useTestData
    THEN LET filename == IF isForecast THEN "weather.forecast.json"
                         ELSE "weather.weather.json"
             reqs == <<[kind |-> "readFile", name |-> filename]>>
         IN  IF answer.kind = "readFileError"
             THEN [requests |-> reqs, err |-> "error reading test file", data |-> None]
             ELSE IF answer.body.decoded = None
             THEN [requests |-> reqs, err |-> "error parsing JSON", data |-> None]
             ELSE [requests |-> reqs, err |-> "nil", data |-> answer.body.decoded]
    ELSE LET reqs == <<[kind |-> "httpGet", url |-> buildURL(location, isForecast)]>>
         IN  IF answer.kind = "getError"
             THEN [requests |-> reqs, err |-> "error making request", data |-> None]
             ELSE IF answer.kind = "readAllError"
             THEN [requests |-> reqs, err |-> "error reading response", data |-> None]
             ELSE IF answer.status # StatusOK
             THEN [requests |-> reqs, err |-> "API error: " \o answer.body.text,
                   data |-> None]
             ELSE IF answer.body.decoded = None
             THEN [requests |-> reqs, err |-> "error parsing JSON", data |-> None]
             ELSE [requests |-> reqs, err |-> "nil", data |-> answer.body.decoded]

\* the three ways an invocation ends
Ok(v) == [kind |-> "returned", value |-> Some(v), err |-> "nil"]
Err(e) == [kind |-> "returned", value |-> None, err |-> e]
Panic == [kind |-> "panic", value |-> None, err |-> "nil"]

\* a slip: no check of len(data.Weather), so weather[0] is out of range
OpenWeather_currentResult_unchecked(f) ==
    IF f.err # "nil" THEN Err(f.err)
    ELSE LET data == f.data[1]
         IN  IF Len(data.Weather) = 0 THEN Panic
             ELSE Ok([Location |-> data.Name,
                      Conditions |-> data.Weather[1].Description,
                      Temperature |-> data.Main.Temp,
                      FeelsLike |-> data.Main.FeelsLike,
                      TempMax |-> data.Main.TempMax,
                      TempMin |-> data.Main.TempMin,
                      Humidity |-> data.Main.Humidity,
                      WindSpeed |-> data.Wind.Speed])

\* Provider A GetCurrentWeather, after fetchData returned f
OpenWeather_currentResult(f) ==
    IF f.err # "nil" THEN Err(f.err)
    ELSE LET data == f.data[1]
         IN  IF Len(data.Weather) = 0 THEN Err("no weather data available")
             ELSE Ok([Location |-> data.Name,
                      Conditions |-> data.Weather[1].Description,
                      Temperature |-> data.Main.Temp,
                      FeelsLike |-> data.Main.FeelsLike,
                      TempMax |-> data.Main.TempMax,
                      TempMin |-> data.Main.TempMin,
                      Humidity |-> data.Main.Humidity,
                      WindSpeed |-> data.Wind.Speed])

\* Provider A GetForecast, after fetchData returned f
OpenWeather_forecastResult(f) ==
    IF f.err # "nil" THEN Err(f.err)
    ELSE LET data == f.data[1]
             daily == processForecastData(data)
         IN  IF Len(data.List) = 0 THEN Err("no forecast data available")
             ELSE IF daily.panicked THEN Panic
             ELSE Ok([Location |-> data.City.Name,
                      Current |-> getCurrentFromForecast(data),
                      DailyItems |-> daily.items])

----------------------------------------------------------------------------
(* Provider B: pkg/weather/openmeteo/provider.go *)

IsUpper(c) == Ord(c) >= Ord("A") /\ Ord(c) <= Ord("Z")
IsLetter(c) == IsUpper(c) \/ (Ord(c) >= Ord("a") /\ Ord(c) <= Ord("z"))

\* [a-zA-Z ]+ : one or more letters or spaces
IsNamePart(s) ==
    Len(s) >= 1 /\ \A i \in 1..Len(s) : IsLetter(CharAt(s, i)) \/ CharAt(s, i) = " "

\* regexp ^[a-zA-Z ]+, ?[A-Z]{2}$
MatchesCityState(location) ==
    LET n == Len(location)
    IN  /\ n >= 4
        /\ IsUpper(CharAt(location, n))
        /\ IsUpper(CharAt(location, n - 1))
        /\ \/ CharAt(location, n - 2) = "," /\ IsNamePart(SubSeq(location, 1, n - 3))
           \/ /\ n >= 5
              /\ CharAt(location, n - 2) = " "
              /\ CharAt(location, n - 3) = ","
              /\ IsNamePart(SubSeq(location, 1, n - 4))

\* strings.TrimSpace: leading and trailing spaces removed
RECURSIVE TrimSpace(_)
TrimSpace(s) ==
    IF Len(s) = 0 THEN s
    ELSE IF CharAt(s, 1) = " " THEN TrimSpace(SubSeq(s, 2, Len(s)))
    ELSE IF CharAt(s, Len(s)) = " " THEN TrimSpace(SubSeq(s, 1, Len(s) - 1))
    ELSE s

\* the map stateMap of matchedState
stateMap ==
    ("Alabama" :> "AL") @@ ("Alaska" :> "AK") @@ ("Arizona" :> "AZ") @@
    ("Arkansas" :> "AR") @@ ("California" :> "CA") @@ ("Colorado" :> "CO") @@
    ("Connecticut" :> "CT") @@ ("Delaware" :> "DE") @@ ("Florida" :> "FL") @@
    ("Georgia" :> "GA") @@ ("Hawaii" :> "HI") @@ ("Idaho" :> "ID") @@
    ("Illinois" :> "IL") @@ ("Indiana" :> "IN") @@ ("Iowa" :> "IA") @@
    ("Kansas" :> "KS") @@ ("Kentucky" :> "KY") @@ ("Louisiana" :> "LA") @@
    ("Maine" :> "ME") @@ ("Maryland" :> "MD") @@ ("Massachusetts" :> "MA") @@
    ("Michigan" :> "MI") @@ ("Minnesota" :> "MN") @@
    ("Mississippi" :> "MS") @@ ("Missouri" :> "MO") @@ ("Montana" :> "MT") @@
    ("Nebraska" :> "NE") @@ ("Nevada" :> "NV") @@
    ("New Hampshire" :> "NH") @@ ("New Jersey" :> "NJ") @@
    ("New Mexico" :> "NM") @@ ("New York" :> "NY") @@
    ("North Carolina" :> "NC") @@ ("North Dakota" :> "ND") @@
    ("Ohio" :> "OH") @@ ("Oklahoma" :> "OK") @@ ("Oregon" :> "OR") @@
    ("Pennsylvania" :> "PA") @@ ("Rhode Island" :> "RI") @@
    ("South Carolina" :> "SC") @@ ("South Dakota" :> "SD") @@
    ("Tennessee" :> "TN") @@ ("Texas" :> "TX") @@ ("Utah" :> "UT") @@
    ("Vermont" :> "VT") @@ ("Virginia" :> "VA") @@ ("Washington" :> "WA") @@
    ("West Virginia" :> "WV") @@ ("Wisconsin" :> "WI") @@ ("Wyoming" :> "WY")

\* matchedState(fullName, abbrev)
matchedState(fullName, abbrev) ==
    IF fullName \in DOMAIN stateMap THEN stateMap[fullName] = abbrev ELSE FALSE

\* the map codes of getWeatherDescription
codes ==
    (0 :> "clear sky") @@ (1 :> "mainly clear") @@ (2 :> "partly cloudy") @@
    (3 :> "overcast") @@ (45 :> "foggy") @@ (48 :> "depositing rime fog") @@
    (51 :> "light drizzle") @@ (53 :> "moderate drizzle") @@
    (55 :> "dense drizzle") @@ (61 :> "slight rain") @@
    (63 :> "moderate rain") @@ (65 :> "heavy rain") @@
    (71 :> "slight snow") @@ (73 :> "moderate snow") @@
    (75 :> "heavy snow") @@ (77 :> "snow grains") @@
    (80 :> "slight rain showers") @@ (81 :> "moderate rain showers") @@
    (82 :> "violent rain showers") @@ (85 :> "slight snow showers") @@
    (86 :> "heavy snow showers") @@ (95 :> "thunderstorm") @@
    (96 :> "thunderstorm with slight hail") @@
    (99 :> "thunderstorm with heavy hail")

\* a slip: "return codes[code]", the zero string for a code not in the map
getWeatherDescription_zeroValue(code) ==
    IF code \in DOMAIN codes THEN codes[code] ELSE ""

\* getWeatherDescription(code)
getWeatherDescription(code) ==
    IF code \in DOMAIN codes THEN codes[code] ELSE "unknown"

\* a slip: the pattern takes a state in either case, ^[a-zA-Z ]+, ?[a-zA-Z]{2}$
classifyLocation_anyCase(location) ==
    LET parts == Split(location, ",")
        anyCase == /\ Len(parts) = 2
                   /\ IsNamePart(parts[1])
                   /\ \/ Len(parts[2]) = 2 /\ IsNamePart(parts[2])
                         /\ CharAt(parts[2], 1) # " " /\ CharAt(parts[2], 2) # " "
                      \/ Len(parts[2]) = 3 /\ IsNamePart(parts[2])
                         /\ CharAt(parts[2], 1) = " "
                         /\ CharAt(parts[2], 2) # " " /\ CharAt(parts[2], 3) # " "
    IN  IF IsZip(location)
        THEN [name |-> location, state |-> "", count |-> 1]
        ELSE IF anyCase
        THEN [name |-> TrimSpace(parts[1]), state |-> TrimSpace(parts[2]),
              count |-> 10]
        ELSE [name |-> location, state |-> "", count |-> 0]

\* the first lines of getCoordinates: the name sent, the state kept for the
\* filter ("" when none) and the count asked for
classifyLocation(location) ==
    IF IsZip(location)
    THEN [name |-> location, state |-> "", count |-> 1]
    ELSE IF MatchesCityState(location)
    THEN LET parts == Split(location, ",")
         IN  IF Len(parts) = 2
             THEN [name |-> TrimSpace(parts[1]), state |-> TrimSpace(parts[2]),
                   count |-> 10]
             ELSE [name |-> location, state |-> "", count |-> 10]
    ELSE [name |-> location, state |-> "", count |-> 0]

\* a slip: the loop does not return at the first match, the last one stays
firstMatching_last(results, state) ==
    LET hits == {i \in 1..Len(results) : matchedState(results[i].State, state)}
    IN  IF hits = {} THEN 0 ELSE CHOOSE i \in hits : \A j \in hits : j <= i

\* the loop over data.Results: the position of the first result whose admin1
\* matches the state, 0 when there is none
firstMatching(results, state) ==
    LET hits == {i \in 1..Len(results) : matchedState(results[i].State, state)}
    IN  IF hits = {} THEN 0 ELSE CHOOSE i \in hits : \A j \in hits : i <= j

\* a slip: the state is not looked at, the first result is taken
selectCandidate_unfiltered(cls, results) ==
    IF Len(results) = 0
    THEN [err |-> "location not found: " \o cls.name, result |-> None]
    ELSE [err |-> "nil", result |-> Some(results[1])]

\* a slip: when no result matches the state, the first result is returned
selectCandidate_fallback(cls, results) ==
    IF Len(results) = 0
    THEN [err |-> "location not found: " \o cls.name, result |-> None]
    ELSE IF cls.state # ""
    THEN LET k == firstMatching(results, cls.state)
         IN  IF k = 0
             THEN [err |-> "nil", result |-> Some(results[1])]
             ELSE [err |-> "nil", result |-> Some(results[k])]
    ELSE [err |-> "nil", result |-> Some(results[1])]

\* getCoordinates after the geocoding request was answered: the error, or the
\* result it returns
selectCandidate(cls, results) ==
    IF Len(results) = 0
    THEN [err |-> "location not found: " \o cls.name, result |-> None]
    ELSE IF cls.state # ""
    THEN LET k == firstMatching(results, cls.state)
         IN  IF k = 0
             THEN [err |-> "location not found: " \o cls.name, result |-> None]
             ELSE [err |-> "nil", result |-> Some(results[k])]
    ELSE [err |-> "nil", result |-> Some(results[1])]

\* geocoding candidates: one city name in three states, a second place of one
\* of these states, and a region the state table does not hold; coordinates in millionths of a degree, which
\* Sprintf("%f") prints exactly
GeocodingResults ==
    {[Name |-> "Springfield", State |-> "Illinois", Country |-> "United States",
      Latitude |-> 39801720, Longitude |-> -89643710],
     [Name |-> "Springfield", State |-> "Massachusetts", Country |-> "United States",
      Latitude |-> 42101480, Longitude |-> -72589810],
     [Name |-> "Springfield", State |-> "Missouri", Country |-> "United States",
      Latitude |-> 37215330, Longitude |-> -93298240],
     [Name |-> "West Springfield", State |-> "Massachusetts",
      Country |-> "United States",
      Latitude |-> 42107040, Longitude |-> -72620370],
     [Name |-> "Springfield", State |-> "Ontario", Country |-> "Canada",
      Latitude |-> 42833400, Longitude |-> -80933300]}

GeocodingResponses ==
    {[Results |-> l] : l \in SeqsUpTo(GeocodingResults, MaxResults)}

\* the current block of a weather response
CurrentBlocks ==
    {[Temperature |-> 52, WindSpeed |-> 12, WeatherCode |-> c, RelativeHumidity |-> 62] :
        c \in -1..MaxCode} \cup
    {[Temperature |-> 52, WindSpeed |-> 12, WeatherCode |-> 3, RelativeHumidity |-> h] :
        h \in {-5, 130}}

\* the daily arrays: the value at offset i (from 0) tells the array and i
DayTimes ==
    <<"2025-02-26", "2025-02-27", "2025-02-28", "2025-03-01", "2025-03-02",
      "2025-03-03", "2025-03-04", "2025-03-05", "2025-03-06">>
DayCodes == <<3, 0, 61, 42, 95, 1, 80, 2, 45>>

DailyArrays(nTime, nMax, nMin, nWind, nCode, nHum) ==
    [Time |-> SubSeq(DayTimes, 1, nTime),
     TempMax |-> [i \in 1..nMax |-> 60 + i],
     TempMin |-> [i \in 1..nMin |-> 40 + i],
     WindSpeed |-> [i \in 1..nWind |-> 10 + i],
     WeatherCode |-> SubSeq(DayCodes, 1, nCode),
     RelativeHumidity |-> [i \in 1..nHum |-> 70 + i]]

\* daily blocks: the arrays all of one length, or one array shorter than the
\* others
DailyBlocks ==
    {DailyArrays(n, n, n, n, n, n) : n \in 0..MaxDays} \cup
    UNION {{DailyArrays(m, n, n, n, n, n), DailyArrays(n, m, n, n, n, n),
            DailyArrays(n, n, m, n, n, n), DailyArrays(n, n, n, m, n, n),
            DailyArrays(n, n, n, n, m, n), DailyArrays(n, n, n, n, n, m)} :
           n \in 0..MaxDays, m \in 0..MaxDays}

BaseCurrent ==
    [Temperature |-> 52, WindSpeed |-> 12, WeatherCode |-> 3, RelativeHumidity |-> 62]

\* weather responses: every current block over one daily block, and every
\* daily block under one current block
WeatherResponses ==
    {[CurrentWeather |-> c, Daily |-> DailyArrays(1, 1, 1, 0, 0, 0)] : c \in CurrentBlocks}
    \cup {[CurrentWeather |-> BaseCurrent, Daily |-> d] : d \in DailyBlocks}

\* Provider B fetchData(url, target): the error it returns ("nil": none) and
\* what it decodes into target
OpenMeteo_fetchData(answer) ==
    IF answer.kind = "getError"
    THEN [err |-> "error making request", data |-> None]
    ELSE IF answer.kind = "readAllError"
    THEN [err |-> "error reading response", data |-> None]
    ELSE IF answer.status # StatusOK
    THEN [err |-> "API error: " \o answer.body.text, data |-> None]
    ELSE IF answer.body.decoded = None
    THEN [err |-> "error parsing JSON", data |-> None]
    ELSE [err |-> "nil", data |-> answer.body.decoded]

\* the geocoding request of getCoordinates
geocodingRequest(cls) ==
    [kind |-> "httpGet",
     url |-> [host |-> "geocoding-api.open-meteo.com", endpoint |-> "search",
              query |-> "name=" \o QueryEscape(cls.name), count |-> cls.count]]

\* getCoordinates(location), the geocoding request answered by answer
getCoordinates(location, answer) ==
    LET cls == classifyLocation(location)
        f == OpenMeteo_fetchData(answer)
    IN  IF f.err # "nil" THEN [err |-> f.err, result |-> None]
        ELSE selectCandidate(cls, f.data[1].Results)

\* the weather request of GetCurrentWeather (forecast_days=1) and GetForecast
\* (forecast_days=6)
weatherRequest(c, days) ==
    [kind |-> "httpGet",
     url |-> [host |-> "api.open-meteo.com", endpoint |-> "forecast",
              latitude |-> c.Latitude, longitude |-> c.Longitude,
              forecast_days |-> days]]

\* the CurrentWeather both operations of Provider B build
OpenMeteo_current(c, data) ==
    LET both == Len(data.Daily.TempMax) > 0 /\ Len(data.Daily.TempMin) > 0
    IN  [Location |-> c.Name,
         Conditions |-> getWeatherDescription(data.CurrentWeather.WeatherCode),
         Temperature |-> data.CurrentWeather.Temperature,
         FeelsLike |-> data.CurrentWeather.Temperature,
         Humidity |-> data.CurrentWeather.RelativeHumidity,
         WindSpeed |-> data.CurrentWeather.WindSpeed,
         TempMax |-> IF both THEN data.Daily.TempMax[1] ELSE 0,
         TempMin |-> IF both THEN data.Daily.TempMin[1] ELSE 0]

\* Provider B GetCurrentWeather, after the weather request's fetchData
\* returned f
OpenMeteo_currentResult(c, f) ==
    IF f.err # "nil" THEN Err(f.err)
    ELSE Ok(OpenMeteo_current(c, f.data[1]))

\* a slip: the first, current, day is not skipped
sourceIdx_fromToday(i) == i

\* sourceIdx := i + 1, for i from 0: the offset (from 0) read for entry i
sourceIdx(i) == i + 1

\* the loop of GetForecast reads offsets sourceIdx(0..4) of the six arrays: an
\* array too short makes it panic
dailyLoopPanics(daily) ==
    \E i \in 0..4 :
        \E n \in {Len(daily.Time), Len(daily.WeatherCode), Len(daily.TempMax),
                  Len(daily.TempMin), Len(daily.WindSpeed),
                  Len(daily.RelativeHumidity)} :
            sourceIdx(i) >= n

\* dailyItems of GetForecast (sequences count from 1, Go's offsets from 0)
dailyItemsOf(daily) ==
    [n \in 1..5 |->
        LET idx == sourceIdx(n - 1) + 1
        IN  [Date |-> timeParse(daily.Time[idx]),
             Conditions |-> getWeatherDescription(daily.WeatherCode[idx]),
             High |-> daily.TempMax[idx],
             Low |-> daily.TempMin[idx],
             WindSpeed |-> daily.WindSpeed[idx],
             Humidity |-> daily.RelativeHumidity[idx]]]

\* Provider B GetForecast, after the weather request's fetchData returned f
OpenMeteo_forecastResult(c, f) ==
    IF f.err # "nil" THEN Err(f.err)
    ELSE LET data == f.data[1]
         IN  IF Len(data.Daily.Time) < 2
             THEN Err("insufficient forecast data available")
             ELSE IF dailyLoopPanics(data.Daily) THEN Panic
             ELSE Ok([Location |-> c.Name,
                      Current |-> Some(OpenMeteo_current(c, data)),
                      DailyItems |-> dailyItemsOf(data.Daily)])

----------------------------------------------------------------------------
(* The caller: cmd/weather/main.go constructs one provider and invokes it *)

\* openweather.New(apiKey, useTestData, debugMode) and openmeteo.New(debugMode)
Providers ==
    {[name |-> "openweather", useTestData |-> FALSE],
     [name |-> "openweather", useTestData |-> TRUE],
     [name |-> "openmeteo", useTestData |-> FALSE]}

\* locations the caller passes to Provider A: a zip code and a city
OpenWeatherLocations == {"02108", "Boston,MA"}

NoCall == [op |-> "none", location |-> ""]

Init ==
    /\ provider \in Providers
    /\ pc = "idle"
    /\ call = NoCall
    /\ payload = None
    /\ coords = None
    /\ requests = <<>>
    /\ outcome = None

\* the payload a non-success status may carry all the same
SampleWeatherData ==
    CHOOSE d \in WeatherDatas :
        d.Main.TempMax = 70 /\ d.Weather = <<[Description |-> "clear sky"]>>
SampleForecastData ==
    [List |-> <<CHOOSE x \in ListItems :
                   /\ x.DateText = "2025-01-31 12:00:00"
                   /\ x.Main.TempMax = 70
                   /\ x.Weather = <<[Description |-> "clear sky"]>> >>,
     City |-> [Name |-> "Boston"]]

OpenWeatherAnswers(datas, sample) ==
    IF provider.useTestData THEN FileAnswers(sample) ELSE HttpAnswers(datas, sample)

\* Provider A GetCurrentWeather(location), with the upstream's answer
OpenWeather_GetCurrentWeather(location) ==
    /\ pc = "idle"
    /\ provider.name = "openweather"
    /\ \E answer \in OpenWeatherAnswers(WeatherDatas, SampleWeatherData) :
        LET f == OpenWeather_fetchData(provider, location, FALSE, answer)
        IN  /\ call' = [op |-> "GetCurrentWeather", location |-> location]
            /\ payload' = Some(answer)
            /\ requests' = f.requests
            /\ outcome' = Some(OpenWeather_currentResult(f))
    /\ pc' = "done"
    /\ UNCHANGED <<provider, coords>>

\* Provider A GetForecast(location), with the upstream's answer
OpenWeather_GetForecast(location) ==
    /\ pc = "idle"
    /\ provider.name = "openweather"
    /\ \E answer \in OpenWeatherAnswers(ForecastDatas, SampleForecastData) :
        LET f == OpenWeather_fetchData(provider, location, TRUE, answer)
        IN  /\ call' = [op |-> "GetForecast", location |-> location]
            /\ payload' = Some(answer)
            /\ requests' = f.requests
            /\ outcome' = Some(OpenWeather_forecastResult(f))
    /\ pc' = "done"
    /\ UNCHANGED <<provider, coords>>

\* the caller prints the result or the error; the next invocation starts afresh
Return ==
    /\ pc = "done"
    /\ pc' = "idle"
    /\ call' = NoCall
    /\ payload' = None
    /\ coords' = None
    /\ requests' = <<>>
    /\ outcome' = None
    /\ UNCHANGED provider

\* locations the caller passes to Provider B: a zip code, "City,ST" with and
\* without the space, a bare city name, and a lower-case state
OpenMeteoLocations ==
    {"62701", "Springfield,IL", "Springfield, MA", "Springfield", "springfield,il"}

\* what the network answers to Provider B's http.Get(url)
OpenMeteoAnswers(datas) ==
    {[kind |-> "getError"], [kind |-> "readAllError", status |-> StatusOK]} \cup
    {[kind |-> "response", status |-> StatusOK, body |-> b] :
        b \in {GarbledBody} \cup {JsonBody(d) : d \in datas}} \cup
    {[kind |-> "response", status |-> st, body |-> ErrorBody] : st \in {201, 404}}

\* Provider B GetCurrentWeather(location) or GetForecast(location), up to the
\* return of getCoordinates: the geocoding request is issued and answered
OpenMeteo_getCoordinates(op, location) ==
    /\ pc = "idle"
    /\ provider.name = "openmeteo"
    /\ \E answer \in OpenMeteoAnswers(GeocodingResponses) :
        LET g == getCoordinates(location, answer)
        IN  /\ call' = [op |-> op, location |-> location]
            /\ payload' = Some(answer)
            /\ requests' = <<geocodingRequest(classifyLocation(location))>>
            /\ coords' = g.result
            /\ IF g.err # "nil"
               THEN pc' = "done" /\ outcome' = Some(Err(g.err))
               ELSE pc' = "geocoded" /\ outcome' = None
    /\ UNCHANGED provider

\* Provider B GetCurrentWeather from the weather request on
OpenMeteo_GetCurrentWeather ==
    /\ pc = "geocoded"
    /\ call.op = "GetCurrentWeather"
    /\ \E answer \in OpenMeteoAnswers(WeatherResponses) :
        /\ payload' = Some(answer)
        /\ requests' = Append(requests, weatherRequest(coords[1], 1))
        /\ outcome' = Some(OpenMeteo_currentResult(coords[1], OpenMeteo_fetchData(answer)))
    /\ pc' = "done"
    /\ UNCHANGED <<provider, call, coords>>

\* Provider B GetForecast from the weather request on
OpenMeteo_GetForecast ==
    /\ pc = "geocoded"
    /\ call.op = "GetForecast"
    /\ \E answer \in OpenMeteoAnswers(WeatherResponses) :
        /\ payload' = Some(answer)
        /\ requests' = Append(requests, weatherRequest(coords[1], 6))
        /\ outcome' = Some(OpenMeteo_forecastResult(coords[1], OpenMeteo_fetchData(answer)))
    /\ pc' = "done"
    /\ UNCHANGED <<provider, call, coords>>

NextOpenMeteo ==
    \/ \E op \in {"GetCurrentWeather", "GetForecast"}, location \in OpenMeteoLocations :
          OpenMeteo_getCoordinates(op, location)
    \/ OpenMeteo_GetCurrentWeather
    \/ OpenMeteo_GetForecast
    \/ Return

InitOpenMeteo == Init /\ provider.name = "openmeteo"

\* Provider B alone
SpecOpenMeteo == InitOpenMeteo /\ [][NextOpenMeteo]_vars

NextOpenWeather ==
    \/ \E location \in OpenWeatherLocations : OpenWeather_GetCurrentWeather(location)
    \/ \E location \in OpenWeatherLocations : OpenWeather_GetForecast(location)
    \/ Return

InitOpenWeather == Init /\ provider.name = "openweather"

\* Provider A alone
SpecOpenWeather == InitOpenWeather /\ [][NextOpenWeather]_vars

Next == NextOpenWeather \/ NextOpenMeteo

\* either provider
Spec == Init /\ [][Next]_vars

----------------------------------------------------------------------------
(* Provider A forecast aggregation: what the claims speak of *)

\* an invocation of Provider A's GetForecast has returned a Forecast
ForecastReturned ==
    /\ pc = "done"
    /\ provider.name = "openweather"
    /\ call.op = "GetForecast"
    /\ outcome[1].kind = "returned"
    /\ outcome[1].err = "nil"

\* the sample list the upstream sent, and the days the provider returned
SampleList == payload[1].body.decoded[1].List
DailyItems == outcome[1].value[1].DailyItems

\* the dt_txt values that have a date and a time part
TimedTexts == {x.DateText : x \in {y \in ListItems : Len(Split(y.DateText, " ")) >= 2}}

\* the date, the calendar day and the hour-of-day of each such dt_txt
DateTable == [t \in TimedTexts |-> Split(t, " ")[1]]
DayTable == [t \in TimedTexts |-> timeParse(Split(t, " ")[1])]
HourTable == [t \in TimedTexts |-> Split(Split(t, " ")[2], ":")[1]]
RetainedTable == [t \in TimedTexts |-> ~StrLess(HourTable[t], "06")]
NoonTable == [t \in TimedTexts |-> Contains(t, "12:00:00")]

\* the date and the calendar day of a sample, from its dt_txt
DateOf(item) == DateTable[item.DateText]
DayOf(item) == DayTable[item.DateText]

\* a sample is retained when its hour-of-day is not below "06"
IsRetained(item) == RetainedTable[item.DateText]

\* the sample's timestamp contains "12:00:00"
HasNoonStamp(item) == NoonTable[item.DateText]

\* positions in list of the retained samples of the calendar day `date`
RetainedOn(list, date) ==
    {i \in 1..Len(list) : IsRetained(list[i]) /\ DayOf(list[i]) = date}

SetMax(S) == CHOOSE x \in S : \A y \in S : y <= x
SetMin(S) == CHOOSE x \in S : \A y \in S : x <= y

\* C1: each output day's High is the maximum of TempMax over the retained
\* samples of its date, and its Low the minimum of TempMin over them.
C1_HighLowAreExtremes ==
    ForecastReturned =>
        \A k \in 1..Len(DailyItems) :
            LET R == RetainedOn(SampleList, DailyItems[k].Date)
            IN  /\ R # {}
                /\ DailyItems[k].High = SetMax({SampleList[i].Main.TempMax : i \in R})
                /\ DailyItems[k].Low = SetMin({SampleList[i].Main.TempMin : i \in R})

\* the list without the samples whose hour-of-day is below "06"
RECURSIVE RetainedOnly(_)
RetainedOnly(list) ==
    IF Len(list) = 0 THEN <<>>
    ELSE (IF IsRetained(list[1]) THEN <<list[1]>> ELSE <<>>)
         \o RetainedOnly(SubSeq(list, 2, Len(list)))

\* C2: a sample whose hour-of-day is below "06" contributes to no output day:
\* the days returned are those of the list without such samples, each field of
\* a day is a value of a retained sample of its date, and a date without a
\* retained sample has no day.
C2_EarlySamplesContributeNothing ==
    ForecastReturned =>
        /\ DailyItems =
             processForecastData([List |-> RetainedOnly(SampleList)]).items
        /\ \A k \in 1..Len(DailyItems) :
             LET R == RetainedOn(SampleList, DailyItems[k].Date)
             IN  /\ R # {}
                 /\ \E i \in R :
                      /\ Len(SampleList[i].Weather) > 0
                      /\ DailyItems[k].Conditions = SampleList[i].Weather[1].Description
                      /\ DailyItems[k].Humidity = SampleList[i].Main.Humidity
                 /\ DailyItems[k].WindSpeed \in {SampleList[i].Wind.Speed : i \in R} \cup {0}
        /\ \A i \in 1..Len(SampleList) :
             RetainedOn(SampleList, DayOf(SampleList[i])) = {} =>
                \A k \in 1..Len(DailyItems) :
                    DailyItems[k].Date # DayOf(SampleList[i])

\* a forecast was returned for a list holding a sample before 06:00 of one date
\* and a retained sample of the other date: one day only is returned
C2_Witness ==
    /\ ForecastReturned
    /\ Len(DailyItems) = 1
    /\ \E i, j \in 1..Len(SampleList) :
         /\ ~IsRetained(SampleList[i])
         /\ IsRetained(SampleList[j])
         /\ DateOf(SampleList[i]) # DateOf(SampleList[j])

----------------------------------------------------------------------------
(* Provider B: what the claims speak of *)

\* the last answer was a success status with a body that decodes
AnswerDecoded ==
    /\ payload # None
    /\ payload[1].kind = "response"
    /\ payload[1].status = 200
    /\ payload[1].body.decoded # None

\* the decoded body of the last answer
Decoded == payload[1].body.decoded[1]

\* Provider B has had its geocoding request answered and issued no other
AfterGeocoding ==
    /\ provider.name = "openmeteo"
    /\ pc \in {"geocoded", "done"}
    /\ Len(requests) = 1

\* the two-letter state a "City,ST" location ends with
RequestedState(location) == SubSeq(location, Len(location) - 1, Len(location))

\* positions of the candidates whose admin1 the state table maps to abbrev
MappingTo(results, abbrev) ==
    {i \in 1..Len(results) :
        results[i].State \in DOMAIN stateMap /\ stateMap[results[i].State] = abbrev}

\* C5: with a state in the request, getCoordinates selects the first candidate
\* in response order whose admin1 maps to that state, and no candidate whose
\* region maps elsewhere or nowhere, even when that one comes first.
C5_StateFilter ==
    (AfterGeocoding /\ AnswerDecoded /\ MatchesCityState(call.location)
        /\ Len(Decoded.Results) > 0) =>
        LET M == MappingTo(Decoded.Results, RequestedState(call.location))
        IN  IF M = {}
            THEN coords = None /\ pc = "done"
            ELSE /\ pc = "geocoded"
                 /\ coords = Some(Decoded.Results[SetMin(M)])
                 /\ stateMap[coords[1].State] = RequestedState(call.location)

\* the response names a candidate of another state before the one of the
\* requested state, and the second is selected
C5_Witness ==
    /\ AfterGeocoding /\ AnswerDecoded
    /\ call.location = "Springfield,IL"
    /\ Len(Decoded.Results) = 2
    /\ Decoded.Results[1].State = "Missouri"
    /\ Decoded.Results[2].State = "Illinois"
    /\ coords = Some(Decoded.Results[2])

\* an invocation of Provider B has ended after its weather request
AfterWeather(op) ==
    /\ provider.name = "openmeteo"
    /\ pc = "done"
    /\ call.op = op
    /\ Len(requests) = 2

\* every daily array of the response has at least n entries
DailyAtLeast(daily, n) ==
    /\ Len(daily.Time) >= n
    /\ Len(daily.WeatherCode) >= n
    /\ Len(daily.TempMax) >= n
    /\ Len(daily.TempMin) >= n
    /\ Len(daily.WindSpeed) >= n
    /\ Len(daily.RelativeHumidity) >= n

\* C6: for daily arrays of 6 entries or more, Provider B's GetForecast returns
\* exactly 5 DailyItems, entry i (from 0) built from offset i+1 of each array;
\* offset 0 is used for none.  (Sequences count from 1: entry n is built from
\* element n+1.)
C6_FiveDaysFromOffsetOne ==
    (AfterWeather("GetForecast") /\ AnswerDecoded /\ DailyAtLeast(Decoded.Daily, 6)) =>
        /\ outcome[1].kind = "returned"
        /\ outcome[1].err = "nil"
        /\ Len(DailyItems) = 5
        /\ \A n \in 1..5 :
             /\ DailyItems[n].Date = timeParse(Decoded.Daily.Time[n + 1])
             /\ DailyItems[n].Conditions = getWeatherDescription(Decoded.Daily.WeatherCode[n + 1])
             /\ DailyItems[n].High = Decoded.Daily.TempMax[n + 1]
             /\ DailyItems[n].Low = Decoded.Daily.TempMin[n + 1]
             /\ DailyItems[n].WindSpeed = Decoded.Daily.WindSpeed[n + 1]
             /\ DailyItems[n].Humidity = Decoded.Daily.RelativeHumidity[n + 1]
             /\ DailyItems[n].Date # timeParse(Decoded.Daily.Time[1])

\* a forecast was returned from daily arrays of 7 entries
C6_Witness ==
    /\ AfterWeather("GetForecast") /\ AnswerDecoded
    /\ DailyAtLeast(Decoded.Daily, 7)
    /\ outcome[1].err = "nil"
    /\ Len(DailyItems) = 5
    /\ DailyItems[5].High = Decoded.Daily.TempMax[6]

\* the keys of the fixed code table
KnownCodes ==
    {0, 1, 2, 3, 45, 48, 51, 53, 55, 61, 63, 65, 71, 73, 75, 77, 80, 81, 82,
     85, 86, 95, 96, 99}

\* C7: getWeatherDescription is total: whatever the weather code of the current
\* block, the operation returns conditions; a code absent from the table (42
\* for one) gives exactly "unknown", a code of the table its entry.
C7_UnknownCode ==
    (AfterWeather("GetCurrentWeather") /\ AnswerDecoded) =>
        LET code == Decoded.CurrentWeather.WeatherCode
        IN  /\ outcome[1].kind = "returned"
            /\ outcome[1].err = "nil"
            /\ code \in KnownCodes => outcome[1].value[1].Conditions = codes[code]
            /\ code \notin KnownCodes => outcome[1].value[1].Conditions = "unknown"
            /\ DOMAIN codes = KnownCodes

\* the current block carried code 42 and the conditions returned are "unknown"
C7_Witness ==
    /\ AfterWeather("GetCurrentWeather") /\ AnswerDecoded
    /\ Decoded.CurrentWeather.WeatherCode = 42
    /\ outcome[1].value[1].Conditions = "unknown"

\* Provider A's fetchData decoded a payload: a canned file, or a response
\* with status 200
OpenWeatherDecoded(op) ==
    /\ provider.name = "openweather"
    /\ pc = "done"
    /\ call.op = op
    /\ \/ payload[1].kind = "file"
       \/ payload[1].kind = "response" /\ payload[1].status = 200
    /\ payload[1].body.decoded # None

\* C8: Provider A's GetCurrentWeather, given a decoded payload whose weather[]
\* is empty, returns the error "no weather data available" and no result; it
\* does not index weather[0].
C8_EmptyWeatherIsAnError ==
    (OpenWeatherDecoded("GetCurrentWeather") /\ Len(Decoded.Weather) = 0) =>
        /\ outcome[1].kind = "returned"
        /\ outcome[1].err = "no weather data available"
        /\ outcome[1].value = None

\* a payload with an empty weather[] was answered with the error
C8_Witness ==
    /\ OpenWeatherDecoded("GetCurrentWeather")
    /\ Len(Decoded.Weather) = 0
    /\ outcome[1].err = "no weather data available"

\* the geocoding of `location` fails on this answer: no response, a status
\* other than 200, a body that does not decode, no result, or a requested state
\* that no result maps to
GeocodingFails(location, answer) ==
    \/ answer.kind # "response"
    \/ answer.status # 200
    \/ answer.body.decoded = None
    \/ Len(answer.body.decoded[1].Results) = 0
    \/ /\ MatchesCityState(location)
       /\ MappingTo(answer.body.decoded[1].Results, RequestedState(location)) = {}

IsGeocodingRequest(r) == r.url.host = "geocoding-api.open-meteo.com"
IsWeatherRequest(r) == r.url.host = "api.open-meteo.com"

\* C9: Provider B issues its weather request only after the geocoding request
\* has completed and yielded a candidate, whose coordinates the request carries;
\* when geocoding fails for any reason the operation returns that error and
\* issues no weather request.
C9_GeocodeBeforeWeather ==
    provider.name = "openmeteo" =>
        /\ Len(requests) <= 2
        /\ \A i \in 1..Len(requests) :
             IsWeatherRequest(requests[i]) =>
                /\ i = 2
                /\ IsGeocodingRequest(requests[1])
                /\ coords # None
                /\ requests[i].url.latitude = coords[1].Latitude
                /\ requests[i].url.longitude = coords[1].Longitude
        /\ (Len(requests) = 1 /\ GeocodingFails(call.location, payload[1])) =>
                /\ pc = "done"
                /\ outcome[1].kind = "returned"
                /\ outcome[1].value = None
                /\ outcome[1].err # "nil"
                /\ coords = None
        /\ (Len(requests) = 1 /\ ~GeocodingFails(call.location, payload[1])) =>
                /\ pc = "geocoded"
                /\ coords # None
                /\ outcome = None

\* a weather request was issued, after the geocoding request
C9_Witness ==
    /\ provider.name = "openmeteo"
    /\ Len(requests) = 2
    /\ IsGeocodingRequest(requests[1])
    /\ IsWeatherRequest(requests[2])

\* C10: every invocation of GetCurrentWeather and GetForecast, of either
\* provider, ends with a result and no error, or with an error and no result.
C10_ResultOrError ==
    pc = "done" =>
        /\ outcome[1].kind = "returned"
        /\ \/ outcome[1].value # None /\ outcome[1].err = "nil"
           \/ outcome[1].value = None /\ outcome[1].err # "nil"

----------------------------------------------------------------------------
(* Requests and errors: what the claims speak of *)

\* the request this answer came back to has failed: no response, a body that
\* cannot be read, a status that is not a success status, or a body that does
\* not decode
RequestFailed(answer) ==
    \/ answer.kind \notin {"response", "file"}
    \/ answer.kind = "response" /\ answer.status \notin 200..299
    \/ answer.body.decoded = None

\* C11: no retry.  Provider A issues at most one request in an invocation,
\* Provider B at most one geocoding request followed by at most one weather
\* request; when the last request failed the invocation has ended with that
\* error and no result, and no request followed the failed one.
C11_NoRetry ==
    /\ provider.name = "openweather" => Len(requests) <= 1
    /\ provider.name = "openmeteo" =>
          /\ Len(requests) <= 2
          /\ Cardinality({i \in 1..Len(requests) : IsGeocodingRequest(requests[i])}) <= 1
          /\ Cardinality({i \in 1..Len(requests) : IsWeatherRequest(requests[i])}) <= 1
          /\ Len(requests) = 2 => IsGeocodingRequest(requests[1])
    /\ (payload # None /\ RequestFailed(payload[1])) =>
          /\ pc = "done"
          /\ outcome[1].kind = "returned"
          /\ outcome[1].value = None
          /\ outcome[1].err # "nil"
          /\ provider.name = "openweather" => Len(requests) = 1
          /\ provider.name = "openmeteo" =>
                (IsWeatherRequest(requests[Len(requests)]) <=> coords # None)

\* Provider B's weather request got no response: the invocation ended with
\* that error after the two requests
C11_Witness ==
    /\ provider.name = "openmeteo"
    /\ pc = "done"
    /\ Len(requests) = 2
    /\ payload[1].kind = "getError"
    /\ outcome[1].err = "error making request"

\* the invocation ended on a response the upstream sent
EndedOnResponse ==
    /\ pc = "done"
    /\ payload # None
    /\ payload[1].kind = "response"

\* C12: fetchData of either provider rejects a response with "API error: "
\* followed by the body verbatim exactly when its status is not a success
\* (2xx) status; a response with a success status, 201 included, is not
\* rejected and goes on to JSON decoding.
C12_StatusHandling ==
    EndedOnResponse =>
        /\ (outcome[1].err = "API error: " \o payload[1].body.text)
               <=> (payload[1].status \notin 200..299)
        /\ (payload[1].status \in 200..299 /\ payload[1].body.decoded # None
               /\ provider.name = "openweather") =>
               outcome[1].err \notin {"error parsing JSON",
                                      "API error: " \o payload[1].body.text}

\* Provider B's geocoding request carries the name and the count the claim
\* gives for the location: the text before the comma of "name, ST"
NamePart(location) == TrimSpace(Split(location, ",")[1])

\* C13: the geocoding request of getCoordinates carries count=1 for a 5-digit
\* location, count=10 and the city part alone as the name for a "name, ST"
\* location, and count=1 for any other, freeform, name.
C13_Classification ==
    (provider.name = "openmeteo" /\ Len(requests) >= 1) =>
        LET url == requests[1].url
        IN  IF IsZip(call.location)
            THEN url.count = 1 /\ url.query = "name=" \o call.location
            ELSE IF MatchesCityState(call.location)
            THEN /\ url.count = 10
                 /\ url.query = "name=" \o QueryEscape(NamePart(call.location))
            ELSE url.count = 1 /\ url.query = "name=" \o QueryEscape(call.location)

\* C14: getCoordinates returns a "location not found" error and no candidate
\* when the geocoding result set is empty, and when the location names a state
\* that no returned candidate's region maps to; it does not fall back to the
\* first candidate.
C14_LocationNotFound ==
    (AfterGeocoding /\ AnswerDecoded
        /\ \/ Len(Decoded.Results) = 0
           \/ /\ MatchesCityState(call.location)
              /\ MappingTo(Decoded.Results, RequestedState(call.location)) = {}) =>
        /\ pc = "done"
        /\ coords = None
        /\ outcome[1].kind = "returned"
        /\ outcome[1].value = None
        /\ SubSeq(outcome[1].err, 1, 18) = "location not found"

\* candidates were returned, none of the requested state, and the error came
C14_Witness ==
    /\ AfterGeocoding /\ AnswerDecoded
    /\ call.location = "Springfield, MA"
    /\ Len(Decoded.Results) = 2
    /\ Decoded.Results[1].State = "Illinois"
    /\ Decoded.Results[2].State = "Ontario"
    /\ outcome[1].err = "location not found: Springfield"

\* the location is neither a 5-digit zip nor a "City,ST" string of Provider
\* B's pattern, and the geocoding response decoded
UnmatchedLocation ==
    /\ AfterGeocoding /\ AnswerDecoded
    /\ ~IsZip(call.location)
    /\ ~MatchesCityState(call.location)

\* C15 as stated: for a location that is neither a 5-digit zip nor a "City,ST"
\* string of its pattern, Provider B fails with "location not found".
C15_UnmatchedLocationFails ==
    UnmatchedLocation =>
        /\ pc = "done"
        /\ outcome[1].value = None
        /\ SubSeq(outcome[1].err, 1, 18) = "location not found"

\* C15, amended: such a location is geocoded as it stands, with no state
\* filter: the whole text is the name sent, the operation fails with "location
\* not found" when the result set is empty, and goes on with the first
\* candidate otherwise.
C15_UnmatchedLocationIsGeocoded ==
    UnmatchedLocation =>
        /\ requests[1].url.query = "name=" \o QueryEscape(call.location)
        /\ IF Len(Decoded.Results) = 0
           THEN /\ pc = "done"
                /\ coords = None
                /\ outcome[1].value = None
                /\ outcome[1].err = "location not found: " \o call.location
           ELSE /\ pc = "geocoded"
                /\ coords = Some(Decoded.Results[1])
                /\ outcome = None

\* a location with a lower-case state is resolved to the first candidate, of
\* another state
C15_Witness ==
    /\ UnmatchedLocation
    /\ call.location = "springfield,il"
    /\ Len(Decoded.Results) = 2
    /\ Decoded.Results[1].State = "Missouri"
    /\ pc = "geocoded"
    /\ coords = Some(Decoded.Results[1])

\* an invocation has returned a result
ResultReturned ==
    /\ pc = "done"
    /\ outcome[1].kind = "returned"
    /\ outcome[1].value # None

\* the CurrentWeather values a returned result holds: the result itself, or
\* the Current of a Forecast when it is not nil
ReturnedCurrent ==
    IF call.op = "GetCurrentWeather"
    THEN outcome[1].value
    ELSE outcome[1].value[1].Current

\* C16: every CurrentWeather either provider returns, as the result of
\* GetCurrentWeather or as the Current of a Forecast, has its Humidity in
\* 0..100, whatever payload the upstream sent.
C16_HumidityInRange ==
    ResultReturned =>
        \A i \in 1..Len(ReturnedCurrent) : ReturnedCurrent[i].Humidity \in 0..100

\* the canned file an operation of Provider A reads in test-data mode
TestFileOf(op) ==
    IF op = "GetForecast" THEN "weather.forecast.json" ELSE "weather.weather.json"

\* C17: with useTestData set, an invocation of Provider A issues no network
\* request for any location: it reads the one fixed file of its operation, and
\* when the file cannot be read it returns that error, with no result and no
\* request to the network.
C17_TestDataOverride ==
    (provider.name = "openweather" /\ provider.useTestData /\ pc = "done") =>
        /\ requests = <<[kind |-> "readFile", name |-> TestFileOf(call.op)]>>
        /\ \A i \in 1..Len(requests) : requests[i].kind # "httpGet"
        /\ payload[1].kind = "readFileError" =>
              /\ outcome[1].kind = "returned"
              /\ outcome[1].value = None
              /\ outcome[1].err = "error reading test file"
        /\ payload[1].kind = "file" =>
              (outcome[1].err = "error parsing JSON"
                  <=> payload[1].body.decoded = None)

\* in test-data mode the forecast file could not be read, and the invocation
\* for a city ended with that error
C17_Witness ==
    /\ provider.name = "openweather" /\ provider.useTestData
    /\ pc = "done"
    /\ call = [op |-> "GetForecast", location |-> "Boston,MA"]
    /\ payload[1].kind = "readFileError"
    /\ requests[1].name = "weather.forecast.json"
    /\ outcome[1].err = "error reading test file"

----------------------------------------------------------------------------
(* Provider A: default conditions, and the loops that index *)

\* C18: for a date none of whose retained samples has a timestamp containing
\* "12:00:00", the day's conditions and humidity are those of the first
\* retained sample of that date in input order: not of a sample before 06:00
\* that precedes it, and not of a later sample.
C18_DefaultConditions ==
    ForecastReturned =>
        \A k \in 1..Len(DailyItems) :
            LET R == RetainedOn(SampleList, DailyItems[k].Date)
            IN  (R # {} /\ \A i \in R : ~HasNoonStamp(SampleList[i])) =>
                    LET first == SetMin(R)
                    IN  /\ DailyItems[k].Conditions =
                              SampleList[first].Weather[1].Description
                        /\ DailyItems[k].Humidity = SampleList[first].Main.Humidity

\* two retained samples of one date, neither at noon, with different
\* descriptions and humidities: the day carries those of the first
C18_Witness ==
    /\ ForecastReturned
    /\ Len(SampleList) = 2
    /\ IsRetained(SampleList[1]) /\ IsRetained(SampleList[2])
    /\ ~HasNoonStamp(SampleList[1]) /\ ~HasNoonStamp(SampleList[2])
    /\ DateOf(SampleList[1]) = DateOf(SampleList[2])
    /\ SampleList[1].Weather # SampleList[2].Weather
    /\ SampleList[1].Main.Humidity # SampleList[2].Main.Humidity
    /\ Len(DailyItems) = 1
    /\ DailyItems[1].Conditions = SampleList[1].Weather[1].Description
    /\ DailyItems[1].Humidity = SampleList[1].Main.Humidity

\* C19: Provider B's GetForecast never reads a daily array past its end:
\* whatever the lengths of the daily arrays of a decoded weather response, the
\* operation returns the error "insufficient forecast data available" or a
\* Forecast with exactly 5 DailyItems.
C19_NoReadPastEnd ==
    (AfterWeather("GetForecast") /\ AnswerDecoded) =>
        /\ outcome[1].kind = "returned"
        /\ \/ /\ outcome[1].value = None
              /\ outcome[1].err = "insufficient forecast data available"
           \/ /\ outcome[1].value # None
              /\ outcome[1].err = "nil"
              /\ Len(DailyItems) = 5

\* C20: Provider A's GetForecast never indexes out of range while aggregating:
\* for every decoded forecast payload with a non-empty list, samples with an
\* empty weather[] or a dt_txt without a time part included, it returns a
\* Forecast or an error.
C20_NoIndexOutOfRange ==
    (OpenWeatherDecoded("GetForecast") /\ Len(Decoded.List) > 0) =>
        /\ outcome[1].kind = "returned"
        /\ (outcome[1].value # None) <=> (outcome[1].err = "nil")

\* the two values the accumulator of processForecastData starts from
Sentinels == {HighInit, LowInit}

\* a sample whose TempMax is not below its TempMin, both strictly between the
\* accumulator's initial values
OrdinaryTemps(item) ==
    /\ item.Main.TempMax >= item.Main.TempMin
    /\ item.Main.TempMax > HighInit /\ item.Main.TempMax < LowInit
    /\ item.Main.TempMin > HighInit /\ item.Main.TempMin < LowInit

\* every retained sample of the list has ordinary temperatures
RetainedAreOrdinary ==
    \A i \in 1..Len(SampleList) :
        IsRetained(SampleList[i]) => OrdinaryTemps(SampleList[i])

\* C21: when every retained sample has TempMax >= TempMin and temperatures
\* strictly between -1000 and 1000, every output day has High >= Low, and
\* neither its High nor its Low is -1000 or 1000.
C21_HighNotBelowLow ==
    (ForecastReturned /\ RetainedAreOrdinary) =>
        \A k \in 1..Len(DailyItems) :
            /\ DailyItems[k].High >= DailyItems[k].Low
            /\ DailyItems[k].High \notin Sentinels
            /\ DailyItems[k].Low \notin Sentinels

\* a sample before 06:00 with temperatures below -1000 is followed by a
\* retained sample with ordinary ones: the day has that sample's high and low
C21_Witness ==
    /\ ForecastReturned
    /\ RetainedAreOrdinary
    /\ Len(SampleList) = 2
    /\ ~IsRetained(SampleList[1]) /\ ~OrdinaryTemps(SampleList[1])
    /\ IsRetained(SampleList[2])
    /\ DateOf(SampleList[1]) = DateOf(SampleList[2])
    /\ Len(DailyItems) = 1
    /\ DailyItems[1].High = SampleList[2].Main.TempMax
    /\ DailyItems[1].Low = SampleList[2].Main.TempMin
    /\ DailyItems[1].High > DailyItems[1].Low

====
